---- MODULE Spec2Model ----
(***************************************************************************)
(* Model of rx-request.js: request(options) as a cold, cancellable         *)
(* producer over an XMLHttpRequest-like transport handle, together with    *)
(* the rest-call-method adapter layered on it.                             *)
(*                                                                         *)
(* JavaScript values are tagged records ([t |-> "null"], [t |-> "num", ..])*)
(* so that values of different JavaScript types can be compared.  Strings  *)
(* that the code builds by concatenation are sequences of fragments.       *)
(***************************************************************************)
EXTENDS Integers, Sequences, FiniteSets, TLC

\* Largest number of subscriptions made to the observable request() returned.
MaxSubs == 2

----------------------------------------------------------------------------
(* JavaScript values *)

Null == [t |-> "null"]
Undef == [t |-> "undefined"]
Num(n) == [t |-> "num", v |-> n]
Str(s) == [t |-> "string", v |-> s]
Obj(o) == [t |-> "object", v |-> o]

\* x === undefined: null is not caught.
IsUndefinedOnly(x) == x.t = "undefined"

\* x == null in JavaScript: true of null and of undefined.
IsNullish(x) == x.t \in {"null", "undefined"}

\* The value of an absent string-valued option, and what `${x}` renders it as.
Undefined == "undefined"

\* x || d for a string-valued option.
OrDefault(x, d) == IF x = Undefined THEN d ELSE x

----------------------------------------------------------------------------
(* Error values *)

\* new RequestError(url, xhr, message): code is read from the second
\* argument's status field, whatever that argument is (undefined when it
\* has no such field).
RequestError(url, xhr, message) ==
  [ name    |-> "RequestError",
    url     |-> url,
    xhr     |-> xhr,
    code    |-> IF "status" \in DOMAIN xhr THEN xhr.status ELSE Undef,
    reason  |-> Null,
    message |-> <<"request: ">> \o message \o <<" (", url, ")">> ]

\* new RestCallMethodError(url, {code, method, message}); message is never
\* passed by this file, so the trailing "\n" + message part is absent.
RestCallMethodError(url, code, method) ==
  [ name    |-> "RestCallMethodError",
    url     |-> url,
    code    |-> code,
    message |-> <<"restmethodcall: webservice error status ", ToString(code), " (", url, ")">>
                \o (IF method = Undefined THEN <<>> ELSE <<" (", method, ")">>) ]

----------------------------------------------------------------------------
(* JSON.parse and toJSONForIE *)

\* The response texts the transport may carry.
JsonTexts == {"{\"a\":1}", "not json", "null"}

\* JSON.parse(text): the parsed value, or a thrown SyntaxError.
JSONparse(text) ==
  CASE text = "{\"a\":1}" -> [threw |-> FALSE, value |-> Obj("a=1")]
    [] text = "null"      -> [threw |-> FALSE, value |-> Null]
    [] OTHER              -> [threw |-> TRUE,  value |-> Undef]

\* toJSONForIE whose catch clause returns the text it was given instead of
\* null.
toJSONForIEKeepText(blob) ==
  IF JSONparse(blob.v).threw THEN blob ELSE JSONparse(blob.v).value

toJSONForIE(blob) ==
  IF JSONparse(blob.v).threw THEN Null ELSE JSONparse(blob.v).value

----------------------------------------------------------------------------
(* XML serialisation: escapeXml and objToXML *)

\* A string given character by character, and an object given as its
\* entries [k |-> key, v |-> value] in enumeration order.
Text(chars) == [t |-> "text", v |-> chars]
Map(entries) == [t |-> "map", v |-> entries]

RECURSIVE Flatten(_)
Flatten(parts) ==
  IF parts = <<>> THEN <<>> ELSE Head(parts) \o Flatten(Tail(parts))

\* ENTITIES with a fourth entry, the double quote.
ENTITIESWithQuote(c) ==
  CASE c = "&"  -> "&amp;"
    [] c = "<"  -> "&lt;"
    [] c = ">"  -> "&gt;"
    [] c = "\"" -> "&quot;"
    [] OTHER    -> c

\* ENTITIES[tag] for the characters ENTITIES_REG matches; others are kept.
ENTITIES(c) ==
  CASE c = "&" -> "&amp;"
    [] c = "<" -> "&lt;"
    [] c = ">" -> "&gt;"
    [] OTHER   -> c

\* (xml || "").toString().replace(ENTITIES_REG, tag => ENTITIES[tag]): a
\* falsy argument (undefined, null, 0, the empty string) gives the empty
\* string.
escapeXml(xml) ==
  CASE xml.t = "text" -> [i \in 1..Len(xml.v) |-> ENTITIES(xml.v[i])]
    [] xml.t = "num"  -> IF xml.v = 0 THEN <<>> ELSE <<ToString(xml.v)>>
    [] OTHER          -> <<>>

\* typeof attr == "object": objects and null.
IsObjectType(attr) == attr.t \in {"map", "null"}

RECURSIVE objToXML(_)
objToXML(obj) ==
  IF obj.t # "map" THEN <<>>
  ELSE Flatten([i \in 1..Len(obj.v) |->
         LET attrName == obj.v[i].k
             attr     == obj.v[i].v
             inner    == IF IsObjectType(attr) THEN objToXML(attr) ELSE escapeXml(attr)
         IN  <<"<", attrName, ">">> \o inner \o <<"</", attrName, ">">>])

MethodCallOpen == "<RestCallMethod xmlns:i=\"http://www.w3.org/2001/XMLSchema-instance\">"
MethodCallClose == "</RestCallMethod>"

\* What String.prototype.replace puts in place of the match for a replacement
\* string: "$$" gives "$", "$&" the matched text, "$`" the text before the
\* match and "$'" the text after it; everything else is copied.  An escaped
\* character after a "$" begins with "&", so "$&lt;" is "$&" followed by "lt;".
RECURSIVE Expand(_)
Expand(r) ==
  IF r = <<>> THEN <<>>
  ELSE IF Head(r) = "$" /\ Len(r) > 1
    THEN CASE r[2] = "$"     -> <<"$">> \o Expand(Tail(Tail(r)))
           [] r[2] = "&"     -> <<"{payload}">> \o Expand(Tail(Tail(r)))
           [] r[2] = "&amp;" -> <<"{payload}", "amp;">> \o Expand(Tail(Tail(r)))
           [] r[2] = "&lt;"  -> <<"{payload}", "lt;">> \o Expand(Tail(Tail(r)))
           [] r[2] = "&gt;"  -> <<"{payload}", "gt;">> \o Expand(Tail(Tail(r)))
           [] r[2] = "`"     -> <<MethodCallOpen>> \o Expand(Tail(Tail(r)))
           [] r[2] = "'"     -> <<MethodCallClose>> \o Expand(Tail(Tail(r)))
           [] OTHER          -> <<"$">> \o Expand(Tail(r))
    ELSE <<Head(r)>> \o Expand(Tail(r))

\* METHOD_CALL_XML.replace("{payload}", payload)
METHOD_CALL_XML(payload) ==
  <<MethodCallOpen>> \o Expand(payload) \o <<MethodCallClose>>

----------------------------------------------------------------------------
(* The document parser *)

EnvelopeNeg  == "<RestCallResult><Status>-3</Status><Output/></RestCallResult>"
EnvelopeZero == "<RestCallResult><Status>0</Status><Output/></RestCallResult>"

XmlTexts == {"", EnvelopeNeg, EnvelopeZero}

Document(mime, root, status) ==
  [t |-> "document", mime |-> mime, root |-> root, status |-> status]

\* new DOMParser().parseFromString(text, mime): the set of results the
\* environment's parser can give.  Well-formed text gives its document.  Text
\* that is no XML (here: the empty text) gives, depending on the parser, no
\* document at all or a document holding only a parser error.
parseFromString(text, mime) ==
  CASE text = EnvelopeNeg   -> {Document(mime, "RestCallResult", -3)}
    [] text = EnvelopeZero  -> {Document(mime, "RestCallResult", 0)}
    [] OTHER                -> {Null, Document(mime, "parsererror", 0)}

----------------------------------------------------------------------------
(* RestCallResult *)

Threw(error) == [threw |-> TRUE, error |-> error]
Returned(value) == [threw |-> FALSE, value |-> value]

\* The error of calling querySelector on something that has none: a value
\* that is no document, or the null that querySelector("RestCallResult") gives
\* for a document without that element.
TypeError == [name |-> "TypeError"]

\* RestCallResult with the status test turned around at zero: status <= 0.
RestCallResultZeroThrows(response, url, scriptInfo) ==
  IF response.t # "document" \/ response.root # "RestCallResult"
    THEN Threw(TypeError)
  ELSE IF response.status <= 0
    THEN Threw(RestCallMethodError(url, response.status, scriptInfo))
    ELSE Returned([t |-> "result",
                   output |-> [t |-> "element", name |-> "Output"],
                   status |-> response.status])

\* RestCallResult(response, url, scriptInfo): what it returns or throws.
RestCallResult(response, url, scriptInfo) ==
  IF response.t # "document" \/ response.root # "RestCallResult"
    THEN Threw(TypeError)
  ELSE IF response.status < 0
    THEN Threw(RestCallMethodError(url, response.status, scriptInfo))
    ELSE Returned([t |-> "result",
                   output |-> [t |-> "element", name |-> "Output"],
                   status |-> response.status])

----------------------------------------------------------------------------
(* The caller's request options *)

Url == "http://host/svc"

Formats ==
  {Undefined, "text", "json", "document", "blob", "arraybuffer", "rest-call-method"}

\* method, headers (name/value pairs in enumeration order; none when the
\* option is absent) and data, as the caller passes them.
Shapes ==
  { [method |-> Undefined, headers |-> <<>>, data |-> Undef],
    [method |-> "PUT", headers |-> << <<"X-A", "1">> >>,
     data |-> Map(<< [k |-> "a", v |-> Text(<<"<", "x", ">">>)] >>)],
    [method |-> "PUT", headers |-> << <<"X-A", "1">> >>,
     data |-> Map(<< [k |-> "price", v |-> Text(<<"$", "$", "5">>)] >>)] }

\* withMetadata and responseHeaders, as the caller passes them.
Metas ==
  { [withMetadata |-> FALSE, responseHeaders |-> Undef],
    [withMetadata |-> TRUE,  responseHeaders |-> Undef],
    [withMetadata |-> TRUE,  responseHeaders |-> [t |-> "list", v |-> <<"X-Total">>]] }

Opt(f, sh, m) ==
  [url |-> Url, method |-> sh.method, headers |-> sh.headers, data |-> sh.data,
   format |-> f, withMetadata |-> m.withMetadata,
   responseHeaders |-> m.responseHeaders, ScriptInfo |-> "GetThing"]

NoShape == [method |-> Undefined, headers |-> <<>>, data |-> Undef]
NoMeta == [withMetadata |-> FALSE, responseHeaders |-> Undef]

\* The option objects a caller may pass: every format that request() handles
\* itself with the other options absent, each choice of withMetadata and
\* responseHeaders for one of them, and the format it hands to restCallMethod
\* with method, headers and data present.
Options ==
  { Opt(f, NoShape, NoMeta) : f \in Formats \ {"rest-call-method"} }
  \cup { Opt("text", NoShape, m) : m \in Metas }
  \cup { Opt("rest-call-method", sh, NoMeta) : sh \in Shapes \ {NoShape} }

----------------------------------------------------------------------------
(* State *)

VARIABLES
  options,   \* the object the caller passed to request()
  given,     \* the same object as it was when the caller built it
  obs,       \* what request() returned: "none" (not called yet), "create"
             \* (Observable.create(...)) or "map" (that, mapped by RestCallResult)
  handles,   \* the XMLHttpRequest objects made so far, in creation order
  subs,      \* the subscriptions made so far, in subscription order
  pure       \* the call of an exported helper that is being looked at: its
             \* name, arguments and outcome ([fn |-> "none"] when there is none)

vars == <<options, given, obs, handles, subs, pure>>

Idle == [fn |-> "none"]

Init ==
  /\ options \in Options
  /\ given = options
  /\ obs = "none"
  /\ handles = <<>>
  /\ subs = <<>>
  /\ pure = Idle

----------------------------------------------------------------------------
(* The transport: XMLHttpRequest *)

Statuses == {199, 200, 299, 300}

StatusText(status) ==
  CASE status = 199 -> "Early"
    [] status = 200 -> "OK"
    [] status = 299 -> "Custom"
    [] OTHER        -> "Multiple Choices"

\* What xhr.response can be once loaded, by responseType.  With "json" a
\* current engine gives the parsed value, or null when the body does not
\* parse; an engine without the "json" type gives the body text.  The body
\* of a response outside 2xx, which nothing reads, is left empty.
Responses(responseType, status) ==
  CASE status \notin 200..299 -> {Null}
    [] responseType = "text" -> {Str(t) : t \in XmlTexts}
    [] responseType = "json" -> {Obj("a=1"), Null} \cup {Str(t) : t \in JsonTexts}
    [] OTHER                 -> {Obj(responseType), Null}

\* xhr.getResponseHeader(name)
getResponseHeader(x, name) == IF name = "X-Total" THEN Str("7") ELSE Null

\* xhr.abort(): an exchange that is under way is ended without a load or
\* error event and the handle goes back to the unsent state.
abort(x) ==
  [x EXCEPT !.aborts = @ + 1,
            !.readyState = 0,
            !.pending = "none"]

\* The reference to handle h that the code passes on, with the status it
\* reads from it.
XhrRef(h, x) == [t |-> "xhr", id |-> h, status |-> Num(x.status)]

----------------------------------------------------------------------------
(* The function given to Observable.create: what one subscription runs *)

\* new XMLHttpRequest(), open, responseType, setRequestHeader for each
\* header, the two addEventListener calls and send(data), for subscription s.
\* pending is the event the handle is about to dispatch and fired the one it
\* has dispatched ("none", "load" or "error").
NewXhr(o, s) ==
  [ method         |-> OrDefault(o.method, "GET"),
    url            |-> o.url,
    responseType   |-> IF o.format = "document" THEN "text"
                       ELSE OrDefault(o.format, "text"),
    requestHeaders |-> o.headers,
    body           |-> o.data,
    opens          |-> 1,
    sends          |-> 1,
    aborts         |-> 0,
    readyState     |-> 1,
    listeners      |-> {<<"load", s>>, <<"error", s>>},
    pending        |-> "none",
    fired          |-> "none",
    status         |-> 0,
    statusText     |-> "",
    response       |-> Null,
    responseURL    |-> "" ]

\* The state a subscription's closure starts with: xhr refers to the handle
\* just made (0 is null).  handle, unsubscribed and callsAtUnsub record the
\* history: the handle made for the subscription, whether the subscriber has
\* unsubscribed and how many observer calls had been made when it did.
NewSub(h) ==
  [ xhr            |-> h,
    handle         |-> h,
    calls          |-> <<>>,
    disposed       |-> FALSE,
    unsubscribed   |-> FALSE,
    callsAtUnsub   |-> -1 ]

\* getResponseHeadersList whose loop stops one short: i < length - 1.
getResponseHeadersListShort(x, headersList) ==
  [t |-> "headers",
   v |-> [name \in {headersList[i] : i \in 1..(Len(headersList) - 1)} |->
            getResponseHeader(x, name)]]

\* getResponseHeadersList(xhr, headersList)
getResponseHeadersList(x, headersList) ==
  [t |-> "headers",
   v |-> [name \in {headersList[i] : i \in 1..Len(headersList)} |->
            getResponseHeader(x, name)]]

\* The results the document parser can give onLoad; only the document format
\* consults it.
Parsed(o, x) ==
  IF o.format = "document" /\ x.response.t = "string"
    THEN parseFromString(x.response.v, "text/xml")
    ELSE {Null}

Call(type, value) == [type |-> type, value |-> value]

\* s < 200 || s >= 300, with the upper limit off by one: 300 passes.
StatusRejectedWide(status) == status < 200 \/ status > 300

\* s < 200 || s >= 300, with the upper limit one too low: 299 is rejected.
StatusRejectedNarrow(status) == status < 200 \/ status >= 299

\* s < 200 || s >= 300
StatusRejected(status) == status < 200 \/ status >= 300

\* The payload onLoad decodes: the parser's document for the document format,
\* xhr.response otherwise, passed through toJSONForIE when the format is json
\* and the payload is still a string.
Decoded(o, x, parsed) ==
  LET blob == IF o.format = "document" THEN parsed ELSE x.response
  IN  IF o.format = "json" /\ blob.t = "string" THEN toJSONForIE(blob) ELSE blob

StatusError(o, h, x) ==
  Call("onError", RequestError(o.url, XhrRef(h, x), <<x.statusText>>))

NullResponseError(o, h, x) ==
  Call("onError", RequestError(o.url, XhrRef(h, x),
         <<"null response with format \"", o.format,
           "\" (error while parsing or wrong content-type)">>))

\* The onNext value: the blob, or the metadata record around it.
NextValue(o, h, x, total, blob) ==
  IF o.withMetadata
    THEN [ t        |-> "metadata",
           blob     |-> blob,
           size     |-> total,
           duration |-> [t |-> "elapsed"],
           headers  |-> IF o.responseHeaders.t = "list"
                          THEN getResponseHeadersList(x, o.responseHeaders.v)
                          ELSE Undef,
           url      |-> IF x.responseURL = "" THEN o.url ELSE x.responseURL,
           xhr      |-> XhrRef(h, x) ]
    ELSE blob

\* onLoad without the return in its status branch: the error is reported and
\* the function goes on to decode and deliver.
onLoadNoReturn(o, h, x, total, parsed) ==
  LET blob == Decoded(o, x, parsed)
  IN  (IF StatusRejected(x.status) THEN << StatusError(o, h, x) >> ELSE <<>>)
      \o (IF IsNullish(blob)
            THEN << NullResponseError(o, h, x) >>
            ELSE << Call("onNext", NextValue(o, h, x, total, blob)),
                    Call("onCompleted", Undef) >>)

\* onLoad without the null test on the decoded payload.
onLoadNoNullCheck(o, h, x, total, parsed) ==
  LET blob == Decoded(o, x, parsed)
  IN  IF StatusRejected(x.status)
        THEN << StatusError(o, h, x) >>
        ELSE << Call("onNext", NextValue(o, h, x, total, blob)),
                Call("onCompleted", Undef) >>

\* onLoad(evt): the observer calls it makes, in order.  o holds the options
\* the closure destructured, x is evt.target (handle h), total is evt.total
\* and parsed is what the document parser returned.
onLoad(o, h, x, total, parsed) ==
  LET blob == Decoded(o, x, parsed)
  IN  IF StatusRejected(x.status)
        THEN << StatusError(o, h, x) >>
      ELSE IF IsNullish(blob)
        THEN << NullResponseError(o, h, x) >>
        ELSE << Call("onNext", NextValue(o, h, x, total, blob)),
                Call("onCompleted", Undef) >>

\* onError(e): e is the error event, which is what is handed to RequestError.
onError(o, h) ==
  << Call("onError",
       RequestError(o.url, [t |-> "event", type |-> "error", target |-> h],
                    <<"error event">>)) >>

----------------------------------------------------------------------------
(* Teardown and the observable's bookkeeping *)

\* A state st is [handles |-> ..., subs |-> ...].

\* 0 < readyState && readyState < 4 cut short at 3: a handle that is loading
\* is taken as finished.
InFlightNarrow(readyState) == 0 < readyState /\ readyState < 3

\* 0 < readyState && readyState < 4 without the upper limit: a finished
\* handle is taken as under way.
InFlightNoUpper(readyState) == 0 < readyState

\* 0 < readyState && readyState < 4
InFlight(readyState) == 0 < readyState /\ readyState < 4

\* The teardown without its last statement, xhr = null.
teardownKeepsRef(s, st) ==
  LET h          == st.subs[s].xhr
      readyState == st.handles[h].readyState
  IN  IF InFlight(readyState)
        THEN [handles |-> [st.handles EXCEPT
                ![h] = abort([@ EXCEPT !.listeners = @ \ {<<"load", s>>, <<"error", s>>}])],
              subs |-> st.subs]
        ELSE st

\* The function the subscription returns: reads xhr.readyState, detaches both
\* listeners and aborts when the exchange is under way, and clears xhr.
teardown(s, st) ==
  LET h          == st.subs[s].xhr
      readyState == st.handles[h].readyState
      cleared    == [st.subs EXCEPT ![s].xhr = 0]
  IN  IF InFlight(readyState)
        THEN [handles |-> [st.handles EXCEPT
                ![h] = abort([@ EXCEPT !.listeners = @ \ {<<"load", s>>, <<"error", s>>}])],
              subs |-> cleared]
        ELSE [handles |-> st.handles, subs |-> cleared]

\* One invocation of the returned function, whoever makes it: with xhr
\* already null the read of readyState throws before anything else is done.
callTeardown(s, st) ==
  IF st.subs[s].xhr = 0
    THEN [threw |-> TRUE, st |-> st]
    ELSE [threw |-> FALSE, st |-> teardown(s, st)]

\* The observable runs a subscription's teardown once: when the subscriber
\* unsubscribes or when a terminal notification has been made, whichever is
\* first.
dispose(s, st) ==
  IF st.subs[s].disposed
    THEN st
    ELSE teardown(s, [st EXCEPT !.subs[s].disposed = TRUE])

\* The subscriber unsubscribes.
unsubscribe(s, st) ==
  dispose(s, [st EXCEPT !.subs[s].unsubscribed = TRUE,
                        !.subs[s].callsAtUnsub = Len(st.subs[s].calls)])

IsTerminal(call) == call.type \in {"onError", "onCompleted"}

\* The handler of subscription s makes the observer calls `calls` in order.
\* With reenter the subscriber unsubscribes from inside its onNext callback.
RECURSIVE notify(_, _, _, _)
notify(s, calls, reenter, st) ==
  IF calls = <<>> THEN st
  ELSE LET call == Head(calls)
           st1  == [st EXCEPT !.subs[s].calls = Append(@, call)]
           st2  == IF IsTerminal(call) THEN dispose(s, st1)
                   ELSE IF reenter /\ ~st1.subs[s].unsubscribed THEN unsubscribe(s, st1)
                   ELSE st1
       IN  notify(s, Tail(calls), reenter, st2)

\* The handle dispatches an event to the listeners attached to it, in the
\* order they were attached (subscription order), from subscription s on.
RECURSIVE dispatch(_, _, _, _, _)
dispatch(event, h, s, env, st) ==
  IF s > Len(st.subs) THEN st
  ELSE IF <<event, s>> \notin st.handles[h].listeners
    THEN dispatch(event, h, s + 1, env, st)
    ELSE LET x     == st.handles[h]
             calls == IF event = "load"
                        THEN onLoad(options, h, x, env.total, env.parsed)
                        ELSE onError(options, h)
         IN  dispatch(event, h, s + 1, env, notify(s, calls, env.reenter, st))

----------------------------------------------------------------------------
(* Actions *)

State == [handles |-> handles, subs |-> subs]

Becomes(st) == handles' = st.handles /\ subs' = st.subs

\* The object restCallMethod was passed, after the four assignments it makes
\* to it.
restCallMethod(o) ==
  [o EXCEPT !.method  = "POST",
            !.headers = << <<"Content-Type", "application/xml">> >>,
            !.data    = Text(METHOD_CALL_XML(objToXML(o.data))),
            !.format  = "document"]

\* request(options) that creates and sends its handle at once.
CallRequestEager ==
  /\ obs = "none"
  /\ IF options.format = "rest-call-method"
       THEN /\ options' = restCallMethod(options)
            /\ obs' = "map"
       ELSE /\ options' = options
            /\ obs' = "create"
  /\ handles' = Append(handles, NewXhr(options', 1))
  /\ UNCHANGED <<given, subs, pure>>

\* request(options): the call itself, before any subscription.  The
\* rest-call-method branch goes through restCallMethod, which assigns to the
\* caller's object and returns the inner request(options) mapped; the other
\* formats return Observable.create(...) without running its function.
CallRequest ==
  /\ obs = "none"
  /\ IF options.format = "rest-call-method"
       THEN /\ options' = restCallMethod(options)
            /\ obs' = "map"
       ELSE /\ options' = options
            /\ obs' = "create"
  /\ UNCHANGED <<given, handles, subs, pure>>

\* A subscription that attaches to the first handle made instead of making
\* its own.
SubscribeShared ==
  /\ obs # "none"
  /\ Len(subs) < MaxSubs
  /\ LET s == Len(subs) + 1
     IN  IF handles = <<>>
           THEN /\ handles' = <<NewXhr(options, s)>>
                /\ subs' = Append(subs, NewSub(1))
           ELSE /\ handles' = [handles EXCEPT
                      ![1].listeners = @ \cup {<<"load", s>>, <<"error", s>>}]
                /\ subs' = Append(subs, NewSub(1))
  /\ UNCHANGED <<options, given, obs, pure>>

\* subscribe(): the function given to Observable.create runs for a new
\* subscription, up to and including send().
Subscribe ==
  /\ obs # "none"
  /\ Len(subs) < MaxSubs
  /\ LET s == Len(subs) + 1
         h == Len(handles) + 1
     IN  /\ handles' = Append(handles, NewXhr(options, s))
         /\ subs' = Append(subs, NewSub(h))
  /\ UNCHANGED <<options, given, obs, pure>>

\* The exchange advances: headers received (2), loading (3).
Progress(h) ==
  /\ handles[h].readyState \in {1, 2}
  /\ handles' = [handles EXCEPT ![h].readyState = @ + 1]
  /\ UNCHANGED <<options, given, obs, subs, pure>>

\* The response is complete: done (4), the load event is due.
Finish(h) ==
  /\ handles[h].readyState = 3
  /\ handles' = [handles EXCEPT ![h].readyState = 4, ![h].pending = "load"]
  /\ UNCHANGED <<options, given, obs, subs, pure>>

\* The exchange fails at the network level: done (4), the error event is due.
Fail(h) ==
  /\ handles[h].readyState \in {1, 2, 3}
  /\ handles' = [handles EXCEPT ![h].readyState = 4, ![h].pending = "error"]
  /\ UNCHANGED <<options, given, obs, subs, pure>>

\* The load event is dispatched, carrying the final status and body.
FireLoad(h) ==
  /\ handles[h].pending = "load"
  /\ \E status \in Statuses, reenter \in BOOLEAN :
     \E response \in Responses(handles[h].responseType, status) :
       LET x  == [handles[h] EXCEPT !.pending = "none", !.fired = "load",
                                    !.status = status,
                                    !.statusText = StatusText(status),
                                    !.response = response]
           st == [handles |-> [handles EXCEPT ![h] = x], subs |-> subs]
       IN  \E parsed \in Parsed(options, x) :
             Becomes(dispatch("load", h, 1,
                       [total |-> Num(42), parsed |-> parsed, reenter |-> reenter], st))
  /\ UNCHANGED <<options, given, obs, pure>>

\* The error event is dispatched.
FireError(h) ==
  /\ handles[h].pending = "error"
  /\ LET st == [handles |-> [handles EXCEPT ![h].pending = "none",
                                             ![h].fired = "error"],
                 subs |-> subs]
     IN  Becomes(dispatch("error", h, 1,
                   [total |-> Num(0), parsed |-> Null, reenter |-> FALSE], st))
  /\ UNCHANGED <<options, given, obs, pure>>

\* The subscriber unsubscribes.
Unsubscribe(s) ==
  /\ ~subs[s].unsubscribed
  /\ Becomes(unsubscribe(s, State))
  /\ UNCHANGED <<options, given, obs, pure>>

Next ==
  \/ CallRequest
  \/ Subscribe
  \/ \E h \in 1..Len(handles) : Progress(h)
  \/ \E h \in 1..Len(handles) : Finish(h)
  \/ \E h \in 1..Len(handles) : Fail(h)
  \/ \E h \in 1..Len(handles) : FireLoad(h)
  \/ \E h \in 1..Len(handles) : FireError(h)
  \/ \E s \in 1..Len(subs) : Unsubscribe(s)

Spec == Init /\ [][Next]_vars

----------------------------------------------------------------------------
(* The exported helpers called on their own *)

\* Largest absolute value of the Status of an envelope and longest leaf text.
MaxStatus == 3
MaxLen == 3
MaxTeardowns == 3

Alphabet == {"&", "<", ">", "x", "\""}

RECURSIVE Strings(_)
Strings(n) ==
  IF n = 0 THEN {<<>>}
  ELSE Strings(n - 1) \cup {Append(w, c) : w \in Strings(n - 1), c \in Alphabet}

Leaves == {Text(w) : w \in Strings(MaxLen)} \cup {Num(0), Num(7), Null, Undef}

\* One entry, an entry holding a nested object, and two entries of which the
\* second is nested.
Objects ==
  {Map(<< [k |-> "a", v |-> l] >>) : l \in Leaves}
  \cup {Map(<< [k |-> "a", v |-> Map(<< [k |-> "b", v |-> l] >>)] >>) : l \in Leaves}
  \cup {Map(<< [k |-> "a", v |-> l],
               [k |-> "b", v |-> Map(<< [k |-> "c", v |-> Text(<<"v">>)] >>)] >>) :
          l \in Leaves}
  \cup {Map(<< [k |-> "a", v |-> Map(<< [k |-> "b", v |-> Text(<<"v">>)] >>)] >>)}

InitPure ==
  /\ options = Opt("text", NoShape, NoMeta)
  /\ given = options
  /\ obs = "none"
  /\ handles = <<>>
  /\ subs = <<>>
  /\ pure = Idle

\* RestCallResult(document, url, methodLabel) on a parsed envelope.
CallRestCallResult ==
  /\ pure = Idle
  /\ \E status \in -MaxStatus..MaxStatus, url \in {Url, "http://other/svc"},
        scriptInfo \in {Undefined, "GetThing"} :
       LET response == Document("text/xml", "RestCallResult", status)
       IN  pure' = [fn |-> "RestCallResult", response |-> response, url |-> url,
                    scriptInfo |-> scriptInfo,
                    out |-> RestCallResult(response, url, scriptInfo)]
  /\ UNCHANGED <<options, given, obs, handles, subs>>

\* objToXML(obj)
CallObjToXML ==
  /\ pure = Idle
  /\ \E obj \in Objects : pure' = [fn |-> "objToXML", obj |-> obj, out |-> objToXML(obj)]
  /\ UNCHANGED <<options, given, obs, handles, subs>>

\* The first invocation of the function a subscription returned, with its
\* handle at any readyState.
CallTeardown ==
  /\ pure = Idle
  /\ \E readyState \in 0..4 :
       LET st == [handles |-> << [NewXhr(options, 1) EXCEPT !.readyState = readyState] >>,
                  subs    |-> << NewSub(1) >>]
           r  == callTeardown(1, st)
       IN  pure' = [fn |-> "teardown", readyState |-> readyState, st |-> r.st,
                    invocations |-> 1, threw |-> r.threw]
  /\ UNCHANGED <<options, given, obs, handles, subs>>

\* The same function invoked once more.
CallTeardownAgain ==
  /\ pure.fn = "teardown"
  /\ pure.invocations < MaxTeardowns
  /\ LET r == callTeardown(1, pure.st)
     IN  pure' = [pure EXCEPT !.st = r.st, !.invocations = @ + 1, !.threw = r.threw]
  /\ UNCHANGED <<options, given, obs, handles, subs>>

\* The call returns (or its exception is caught) and another can be made.
Return ==
  /\ pure # Idle
  /\ pure' = Idle
  /\ UNCHANGED <<options, given, obs, handles, subs>>

NextPure ==
  \/ CallRestCallResult
  \/ CallObjToXML
  \/ CallTeardown
  \/ CallTeardownAgain
  \/ Return

SpecPure == InitPure /\ [][NextPure]_vars

----------------------------------------------------------------------------
(* What the subscriber receives *)

\* .map(selector): each onNext value goes through the selector; a selector
\* that throws ends the sequence with an onError carrying what it threw, and
\* nothing is passed on after a terminal notification.
RECURSIVE map(_, _)
map(calls, o) ==
  IF calls = <<>> THEN <<>>
  ELSE LET call == Head(calls)
       IN  IF call.type = "onNext"
             THEN LET r == RestCallResult(call.value, o.url, o.ScriptInfo)
                  IN  IF r.threw
                        THEN << Call("onError", r.error) >>
                        ELSE << Call("onNext", r.value) >> \o map(Tail(calls), o)
             ELSE << call >>

\* The notifications subscription s has received: the observer calls of its
\* handlers, mapped by RestCallResult when request() went through
\* restCallMethod.
Received(s) ==
  IF obs = "map" THEN map(subs[s].calls, options) ELSE subs[s].calls

----------------------------------------------------------------------------
(* Properties *)

Subs == 1..Len(subs)

\* The handle made for subscription s.
HandleOf(s) == handles[subs[s].handle]

Types(calls) == [i \in 1..Len(calls) |-> calls[i].type]

\* The listeners of subscription s still attached to its handle.
Attached(s) == HandleOf(s).listeners \cap {<<"load", s>>, <<"error", s>>}

Fragments(message) == {message[i] : i \in 1..Len(message)}

IsRequestError(call) ==
  call.type = "onError" /\ call.value.name = "RequestError"

\* C1: every subscription's observer gets nothing, or one onNext followed by
\* one onCompleted, or one onError: never an onNext together with an onError
\* and never two onError calls.
C1_OneTerminalOutcome ==
  \A s \in Subs :
    Types(subs[s].calls) \in {<<>>, <<"onNext", "onCompleted">>, <<"onError">>}

\* Two subscriptions, one ended by onNext/onCompleted and one by onError, the
\* second of them unsubscribed afterwards.
C1_Witness ==
  \E s, t \in Subs :
    /\ Types(subs[s].calls) = <<"onNext", "onCompleted">>
    /\ Types(subs[t].calls) = <<"onError">>
    /\ subs[t].unsubscribed

\* C2: a step in which a subscriber unsubscribes while its handle's readyState
\* is 1, 2 or 3 detaches both of its listeners and calls abort once; and a
\* subscription whose handle was aborted has had abort called exactly once,
\* has no listener attached and has received no notification.
C2_UnsubscribeInFlight ==
  /\ [][\A s \in Subs :
          ( /\ ~subs[s].unsubscribed
            /\ subs'[s].unsubscribed
            /\ HandleOf(s).readyState \in {1, 2, 3} )
          => ( /\ handles'[subs[s].handle].listeners
                    \cap {<<"load", s>>, <<"error", s>>} = {}
               /\ handles'[subs[s].handle].aborts = HandleOf(s).aborts + 1 )]_vars
  /\ [](\A s \in Subs :
          HandleOf(s).aborts > 0
          => ( /\ subs[s].unsubscribed
               /\ HandleOf(s).aborts = 1
               /\ Attached(s) = {}
               /\ subs[s].calls = <<>> ))

\* A subscription unsubscribed in flight: aborted once, handle back to unsent
\* with no event due, nothing received.
C2_Witness ==
  \E s \in Subs :
    /\ subs[s].unsubscribed
    /\ HandleOf(s).aborts = 1
    /\ HandleOf(s).readyState = 0
    /\ HandleOf(s).pending = "none"
    /\ subs[s].calls = <<>>

\* C3: a subscription whose subscriber unsubscribed after its terminal
\* notification (onCompleted or onError) has had no abort call on its handle.
C3_NoAbortAfterTerminal ==
  \A s \in Subs :
    ( /\ subs[s].unsubscribed
      /\ subs[s].callsAtUnsub > 0
      /\ IsTerminal(subs[s].calls[subs[s].callsAtUnsub]) )
    => HandleOf(s).aborts = 0

\* Unsubscriptions after an onCompleted (from a load event) and after an
\* onError (from an error event).
C3_Witness ==
  \E s, t \in Subs :
    /\ subs[s].unsubscribed /\ subs[s].callsAtUnsub = 2
    /\ HandleOf(s).fired = "load"
    /\ subs[t].unsubscribed /\ subs[t].callsAtUnsub = 1
    /\ HandleOf(t).fired = "error"
    /\ HandleOf(s).aborts = 0 /\ HandleOf(t).aborts = 0

\* C4: once a subscriber has unsubscribed, whatever the readyState was, its
\* listeners are detached and the handlers make no further observer call.
C4_NothingAfterUnsubscribe ==
  \A s \in Subs :
    subs[s].unsubscribed
    => ( /\ Attached(s) = {}
         /\ Len(subs[s].calls) = subs[s].callsAtUnsub )

\* C5: while the observable request() returned has no subscription, no
\* handle exists (none created, opened or sent).
C5_LazyUntilSubscribed ==
  subs = <<>> => handles = <<>>

\* request() has returned and nothing has subscribed yet.
C5_Witness ==
  obs # "none" /\ subs = <<>> /\ handles = <<>>

\* C6: there are as many handles as subscriptions, each subscription has a
\* handle of its own that was opened once and sent once and carries only that
\* subscription's listeners, and a subscription is notified only after its
\* own handle dispatched an event; and a step that notifies one subscription
\* or aborts its handle changes no other subscription and no other handle.
C6_IndependentSubscriptions ==
  /\ [](/\ Len(handles) = Len(subs)
        /\ \A s \in Subs :
             /\ \A t \in Subs : subs[s].handle = subs[t].handle => s = t
             /\ HandleOf(s).opens = 1
             /\ HandleOf(s).sends = 1
             /\ HandleOf(s).listeners \subseteq {<<"load", s>>, <<"error", s>>}
             /\ subs[s].calls # <<>> => HandleOf(s).fired # "none")
  /\ [][\A s \in Subs :
          ( \/ subs'[s].calls # subs[s].calls
            \/ handles'[subs[s].handle].aborts # HandleOf(s).aborts )
          => \A t \in Subs \ {s} :
               /\ subs'[t] = subs[t]
               /\ handles'[subs[t].handle] = HandleOf(t)]_vars

\* Two subscriptions with a handle each: one aborted in flight with nothing
\* received, the other loaded and notified.
C6_Witness ==
  \E s, t \in Subs :
    /\ subs[s].handle # subs[t].handle
    /\ HandleOf(s).aborts = 1 /\ subs[s].calls = <<>>
    /\ HandleOf(t).fired = "load" /\ HandleOf(t).aborts = 0
    /\ Types(subs[t].calls) = <<"onNext", "onCompleted">>

\* C7: whatever the format, after a load event whose status is below 200 or
\* at least 300 the subscription has received exactly one call, an onError
\* with a RequestError whose code is that status and whose message holds the
\* status text.
C7_StatusError ==
  \A s \in Subs :
    ( /\ HandleOf(s).fired = "load"
      /\ (HandleOf(s).status < 200 \/ HandleOf(s).status >= 300) )
    => ( /\ Len(subs[s].calls) = 1
         /\ IsRequestError(subs[s].calls[1])
         /\ subs[s].calls[1].value.code = Num(HandleOf(s).status)
         /\ HandleOf(s).statusText \in Fragments(subs[s].calls[1].value.message) )

\* Loads with status 199 and with status 300, each answered by one onError.
C7_Witness ==
  \E s, t \in Subs :
    /\ HandleOf(s).fired = "load" /\ HandleOf(s).status = 199
    /\ HandleOf(t).fired = "load" /\ HandleOf(t).status = 300
    /\ Types(subs[s].calls) = <<"onError">>
    /\ Types(subs[t].calls) = <<"onError">>

Is2xx(status) == 200 <= status /\ status < 300

\* The decoded payload an onNext call carries.
BlobOf(call) ==
  IF call.value.t = "metadata" THEN call.value.blob ELSE call.value

\* C8: with format "document" the handle's responseType is "text" and a
\* document that is delivered was parsed as "text/xml"; after a 2xx load whose
\* text is empty the subscription has received exactly one call, an onError
\* with a RequestError whose message names the format.
C8_EmptyDocumentIsError ==
  given.format = "document" =>
    \A s \in Subs :
      /\ HandleOf(s).responseType = "text"
      /\ \A i \in 1..Len(subs[s].calls) :
           (subs[s].calls[i].type = "onNext" /\ BlobOf(subs[s].calls[i]).t = "document")
           => BlobOf(subs[s].calls[i]).mime = "text/xml"
      /\ ( /\ HandleOf(s).fired = "load"
           /\ Is2xx(HandleOf(s).status)
           /\ HandleOf(s).response = Str("") )
         => ( /\ Len(subs[s].calls) = 1
              /\ IsRequestError(subs[s].calls[1])
              /\ "document" \in Fragments(subs[s].calls[1].value.message) )

\* What the subscription must have received for a json text: the parsed value
\* by onNext and then onCompleted when `delivered`, one onError with a
\* RequestError naming json otherwise.
JsonOutcome(s, delivered) ==
  IF delivered
    THEN /\ Types(subs[s].calls) = <<"onNext", "onCompleted">>
         /\ BlobOf(subs[s].calls[1]) = JSONparse(HandleOf(s).response.v).value
    ELSE /\ Len(subs[s].calls) = 1
         /\ IsRequestError(subs[s].calls[1])
         /\ "json" \in Fragments(subs[s].calls[1].value.message)

JsonTextLoaded(s) ==
  /\ given.format = "json"
  /\ HandleOf(s).fired = "load"
  /\ Is2xx(HandleOf(s).status)
  /\ HandleOf(s).response.t = "string"

\* C9 as stated: with format "json", after a 2xx load whose payload is a
\* string, the subscription has received the parsed value by onNext when the
\* string is well-formed JSON, and one onError naming json when it is not.
C9_WellFormedJsonDelivered ==
  \A s \in Subs :
    JsonTextLoaded(s)
    => JsonOutcome(s, ~JSONparse(HandleOf(s).response.v).threw)

\* C9, amended: the parsed value is delivered when the string is well-formed
\* JSON for a value other than null; a malformed string and the JSON text
\* null both end in one onError naming json, and no onNext.
C9_JsonTextDecoded ==
  \A s \in Subs :
    JsonTextLoaded(s)
    => JsonOutcome(s, /\ ~JSONparse(HandleOf(s).response.v).threw
                      /\ JSONparse(HandleOf(s).response.v).value # Null)

\* A well-formed text delivered and a malformed text turned into an onError.
C9_Witness ==
  \E s, t \in Subs :
    /\ JsonTextLoaded(s) /\ HandleOf(s).response = Str("{\"a\":1}")
    /\ Types(subs[s].calls) = <<"onNext", "onCompleted">>
    /\ JsonTextLoaded(t) /\ HandleOf(t).response = Str("not json")
    /\ Types(subs[t].calls) = <<"onError">>

\* C10: once request() has returned, and after any subscription, the caller's
\* object still has the method, headers, data and format it was built with.
C10_OptionsUnchanged ==
  obs # "none" =>
    /\ options.method = given.method
    /\ options.headers = given.headers
    /\ options.data = given.data
    /\ options.format = given.format

\* Subscription s of a rest-call-method request has had a 2xx load whose text
\* is the envelope with the given Status.
EnvelopeLoaded(s, status) ==
  /\ given.format = "rest-call-method"
  /\ HandleOf(s).fired = "load"
  /\ Is2xx(HandleOf(s).status)
  /\ HandleOf(s).response = Str(IF status < 0 THEN EnvelopeNeg ELSE EnvelopeZero)

\* C11: with format "rest-call-method" every handle is sent with method POST,
\* the one header Content-Type: application/xml, a body that is the XML
\* serialisation of the caller's data inside the RestCallMethod tag, and
\* responseType "text" (document decoding); after a 2xx load of an envelope
\* with negative Status the subscriber has received exactly one onError with
\* a RestCallMethodError, and with a non-negative Status one onNext with
\* {output, status} (then onCompleted).
C11_RestCallMethod ==
  given.format = "rest-call-method" =>
    \A s \in Subs :
      /\ HandleOf(s).method = "POST"
      /\ HandleOf(s).requestHeaders = << <<"Content-Type", "application/xml">> >>
      /\ HandleOf(s).body =
           Text(<<MethodCallOpen>> \o objToXML(given.data) \o <<MethodCallClose>>)
      /\ HandleOf(s).responseType = "text"
      /\ EnvelopeLoaded(s, -3)
         => /\ Len(Received(s)) = 1
            /\ Received(s)[1].type = "onError"
            /\ Received(s)[1].value.name = "RestCallMethodError"
      /\ EnvelopeLoaded(s, 0)
         => /\ Types(Received(s)) = <<"onNext", "onCompleted">>
            /\ Received(s)[1].value.t = "result"
            /\ Received(s)[1].value.status = 0
            /\ Received(s)[1].value.output = [t |-> "element", name |-> "Output"]

\* C12: RestCallResult on an envelope with Status n, for every n: when n < 0
\* it throws a RestCallMethodError whose code is n and whose url is the url
\* it was given, and whose message names the method label when there is one;
\* when n >= 0 (0 included) it returns {output: the Output element, status: n}.
C12_RestCallResult ==
  pure.fn = "RestCallResult" =>
    IF pure.response.status < 0
      THEN /\ pure.out.threw
           /\ pure.out.error.name = "RestCallMethodError"
           /\ pure.out.error.code = pure.response.status
           /\ pure.out.error.url = pure.url
           /\ pure.scriptInfo # Undefined
              => pure.scriptInfo \in Fragments(pure.out.error.message)
      ELSE /\ ~pure.out.threw
           /\ pure.out.value.status = pure.response.status
           /\ pure.out.value.output = [t |-> "element", name |-> "Output"]

\* Status -3 with the other url and a label has thrown.
C12_Witness ==
  /\ pure.fn = "RestCallResult"
  /\ pure.response.status = -3
  /\ pure.url = "http://other/svc"
  /\ pure.scriptInfo = "GetThing"
  /\ pure.out.threw

Names(list) == {list[i] : i \in 1..Len(list)}

\* C13: with withMetadata true and a list of response header names, the
\* headers of the onNext value have exactly the listed names as keys, each
\* with the value the handle reports for it; with withMetadata false the
\* onNext value is the decoded payload itself, not a metadata record.
C13_MetadataHeaders ==
  \A s \in Subs : \A i \in 1..Len(subs[s].calls) :
    subs[s].calls[i].type = "onNext" =>
      LET value == subs[s].calls[i].value
      IN  /\ (options.withMetadata /\ options.responseHeaders.t = "list")
             => /\ value.t = "metadata"
                /\ DOMAIN value.headers.v = Names(options.responseHeaders.v)
                /\ \A name \in Names(options.responseHeaders.v) :
                     value.headers.v[name] = getResponseHeader(HandleOf(s), name)
          /\ ~options.withMetadata
             => /\ value.t # "metadata"
                /\ options.format \in {Undefined, "text", "blob", "arraybuffer"}
                   => value = HandleOf(s).response

\* A metadata record delivered with the header X-Total and its value.
C13_Witness ==
  \E s \in Subs :
    /\ options.withMetadata /\ options.responseHeaders.t = "list"
    /\ Types(subs[s].calls) = <<"onNext", "onCompleted">>
    /\ subs[s].calls[1].value.headers.v = [name \in {"X-Total"} |-> Str("7")]

\* C14: after an error event the subscription has received exactly one call,
\* an onError with a RequestError whose url is the request's url, whose
\* message holds "error event", whose xhr is the subscription's handle and
\* whose code is that handle's status.
C14_ErrorEvent ==
  \A s \in Subs :
    HandleOf(s).fired = "error"
    => /\ Len(subs[s].calls) = 1
       /\ IsRequestError(subs[s].calls[1])
       /\ subs[s].calls[1].value.url = options.url
       /\ "error event" \in Fragments(subs[s].calls[1].value.message)
       /\ subs[s].calls[1].value.xhr.t = "xhr"
       /\ subs[s].calls[1].value.xhr.id = subs[s].handle
       /\ subs[s].calls[1].value.code = Num(HandleOf(s).status)

HasTerminal(calls) == \E i \in 1..Len(calls) : IsTerminal(calls[i])

\* C16: once a subscription has had its terminal notification (onCompleted
\* or onError), both of its listeners are detached from the handle and its
\* handle reference is cleared, whether or not the subscriber has unsubscribed.
C16_ReleasedAtTerminal ==
  \A s \in Subs :
    HasTerminal(subs[s].calls)
    => /\ Attached(s) = {}
       /\ subs[s].xhr = 0

\* The handlers of subscription s ended with one onError whose RequestError
\* names the format.
NullResponseReported(s) ==
  /\ Len(subs[s].calls) = 1
  /\ IsRequestError(subs[s].calls[1])
  /\ options.format \in Fragments(subs[s].calls[1].value.message)

\* The payload of the loaded handle of s is null as the transport gives it,
\* or is a json text that is malformed or is the text null.
NullPayload(s) ==
  \/ HandleOf(s).response = Null
  \/ /\ options.format = "json"
     /\ HandleOf(s).response.t = "string"
     /\ \/ JSONparse(HandleOf(s).response.v).threw
        \/ JSONparse(HandleOf(s).response.v).value = Null

\* C17: whatever the format, no onNext carries a null or undefined payload;
\* a 2xx load ends either in onNext, onCompleted or in one onError with a
\* RequestError naming the format; and it ends in that onError when the
\* payload is null.
C17_NullPayloadIsError ==
  \A s \in Subs :
    /\ \A i \in 1..Len(subs[s].calls) :
         subs[s].calls[i].type = "onNext"
         => BlobOf(subs[s].calls[i]).t \notin {"null", "undefined"}
    /\ (HandleOf(s).fired = "load" /\ Is2xx(HandleOf(s).status))
       => /\ \/ Types(subs[s].calls) = <<"onNext", "onCompleted">>
             \/ NullResponseReported(s)
          /\ NullPayload(s) => NullResponseReported(s)

\* A 2xx load with a null payload, reported by one onError.
C17_Witness ==
  \E s \in Subs :
    /\ HandleOf(s).fired = "load" /\ HandleOf(s).status = 200
    /\ HandleOf(s).response = Null
    /\ NullResponseReported(s)

\* The payload of the loaded handle of s decodes to a value that is not null:
\* a parsed value, a text (for the document format one that parses, for json
\* one that parses to something other than null).
NonNullPayload(s) ==
  /\ ~NullPayload(s)
  /\ options.format = "document" => HandleOf(s).response \in {Str(EnvelopeNeg), Str(EnvelopeZero)}

\* C18: after a load with status in 200..299 and a payload that decodes to a
\* non-null value, the observer calls of the subscription are exactly one
\* onNext followed by one onCompleted.
C18_SuccessDelivered ==
  \A s \in Subs :
    (HandleOf(s).fired = "load" /\ Is2xx(HandleOf(s).status) /\ NonNullPayload(s))
    => Types(subs[s].calls) = <<"onNext", "onCompleted">>

\* Loads with status 200 and with status 299, each delivered.
C18_Witness ==
  \E s, t \in Subs :
    /\ HandleOf(s).fired = "load" /\ HandleOf(s).status = 200 /\ NonNullPayload(s)
    /\ HandleOf(t).fired = "load" /\ HandleOf(t).status = 299 /\ NonNullPayload(t)
    /\ Types(subs[s].calls) = <<"onNext", "onCompleted">>
    /\ Types(subs[t].calls) = <<"onNext", "onCompleted">>

Tag(name, inner) == <<"<", name, ">">> \o inner \o <<"</", name, ">">>

\* C15: objToXML gives one element per key, in the order of the keys: the
\* output for two keys is the output for the first followed by the output
\* for the second; the element of a key whose value is an object holds the
\* rendering of that object; the element of a key whose value is a text holds
\* the text with "&", "<" and ">" replaced by their entities and every other
\* character (the double quote among them) kept. objToXML({a: "<x>"}) is
\* <a>&lt;x&gt;</a> and objToXML({a: {b: "v"}}) is <a><b>v</b></a>.
C15_ObjToXML ==
  pure.fn = "objToXML" =>
    LET entries == pure.obj.v
        first   == entries[1]
    IN  /\ Len(entries) = 2
           => pure.out = objToXML(Map(<<entries[1]>>)) \o objToXML(Map(<<entries[2]>>))
        /\ (Len(entries) = 1 /\ first.v.t = "map")
           => pure.out = Tag(first.k, objToXML(first.v))
        /\ (Len(entries) = 1 /\ first.v.t = "text")
           => pure.out =
                Tag(first.k,
                    [i \in 1..Len(first.v.v) |->
                       CASE first.v.v[i] = "&" -> "&amp;"
                         [] first.v.v[i] = "<" -> "&lt;"
                         [] first.v.v[i] = ">" -> "&gt;"
                         [] OTHER              -> first.v.v[i]])
        /\ pure.obj = Map(<< [k |-> "a", v |-> Text(<<"<", "x", ">">>)] >>)
           => pure.out = <<"<", "a", ">", "&lt;", "x", "&gt;", "</", "a", ">">>
        /\ pure.obj = Map(<< [k |-> "a", v |-> Map(<< [k |-> "b", v |-> Text(<<"v">>)] >>)] >>)
           => pure.out = <<"<", "a", ">", "<", "b", ">", "v", "</", "b", ">", "</", "a", ">">>

\* objToXML({a: "<\"&"}) has given <a>&lt;"&amp;</a>.
C15_Witness ==
  /\ pure.fn = "objToXML"
  /\ pure.obj = Map(<< [k |-> "a", v |-> Text(<<"<", "\"", "&">>)] >>)
  /\ pure.out = <<"<", "a", ">", "&lt;", "\"", "&amp;", "</", "a", ">">>

\* C19: after any number of invocations of a subscription's teardown, made
\* with the handle at readyState 0, 1, 2, 3 or 4, the handle reference is
\* cleared and abort has been called once when the first invocation found
\* readyState 1..3 and never otherwise; an invocation after the first finds
\* the reference cleared and throws before it reaches abort.
C19_TeardownClearsOnce ==
  pure.fn = "teardown" =>
    /\ pure.st.subs[1].xhr = 0
    /\ pure.st.handles[1].aborts = IF pure.readyState \in 1..3 THEN 1 ELSE 0
    /\ pure.threw <=> pure.invocations > 1

\* The teardown invoked three times on a handle that was receiving.
C19_Witness ==
  /\ pure.fn = "teardown"
  /\ pure.readyState = 3
  /\ pure.invocations = 3
  /\ pure.st.handles[1].aborts = 1
  /\ pure.st.subs[1].xhr = 0

\* The request behind subscription s has failed: an error event, a load with
\* a status outside 200..299, or a 2xx load with a null payload.
RequestFailed(s) ==
  \/ HandleOf(s).fired = "error"
  \/ HandleOf(s).fired = "load" /\ ~Is2xx(HandleOf(s).status)
  \/ HandleOf(s).fired = "load" /\ NullPayload(s)

====
